---- MODULE Spec2Model ----
(***************************************************************************)
(* Model of the two kernel modules of tool-capability-protocol:            *)
(*                                                                         *)
(*   src/kernel/tcp_kernel_module.c                                        *)
(*       the syscall path: a static table of four syscall descriptors,     *)
(*       tcp_check_context and tcp_analyze_syscall with its atomic         *)
(*       statistics counters;                                              *)
(*                                                                         *)
(*   src/consortium/sam-mitchell/kernel-development/tcp_kernel_module.c    *)
(*       the descriptor path: tcp_validate_descriptor_kernel with the      *)
(*       fingerprint, the ring cache, the checksum, the four gates and     *)
(*       the statistics shown by tcp_proc_show.                            *)
(*                                                                         *)
(* Descriptors are byte sequences (values 0..255) laid out as the packed   *)
(* structs lay them out on x86 (little endian).  Integer fields are kept   *)
(* below 2^31.                                                             *)
(***************************************************************************)
EXTENDS Integers, Sequences, FiniteSets, TLC

(***************************************************************************)
(* Bounds of the model.                                                    *)
(***************************************************************************)
\* Number of slots of the ring cache (TCP_CACHE_SIZE is 10000 in the code;
\* the ring algorithm is the same for every size >= 1).
TCP_CACHE_SIZE == 2

\* Number of evaluations of one run of the descriptor path.
MaxEvals == 3

\* Cap on total_checks of the syscall path.
MaxChecks == 3

(***************************************************************************)
(* Program constants.                                                      *)
(***************************************************************************)
TCP_MAGIC_CLASSICAL == 1346589698      \* 0x50435402
TCP_MAGIC_QUANTUM == 1364214612        \* 0x51504354

TCP_HW_LSM == 1
TCP_HW_EBPF == 2
TCP_HW_PMU == 4
TCP_HW_TPM == 8
TCP_HW_SGX == 16
TCP_HW_CET == 32
TCP_HW_PT == 64
TCP_HW_MPK == 128

EINVAL == 22
EACCES == 13
EPERM == 1

TCP_FLAG_SAFE == 1
TCP_FLAG_DESTRUCTIVE == 2
TCP_FLAG_FILESYSTEM == 4
TCP_FLAG_NETWORK == 8
TCP_FLAG_EXECUTION == 16
TCP_FLAG_CRITICAL == 32
TCP_FLAG_KERNEL == 64
TCP_FLAG_PRIVESC == 128

TCP_CTX_USER == 1
TCP_CTX_ADMIN == 2
TCP_CTX_KERNEL == 4
TCP_CTX_CONTAINER == 8
TCP_CTX_ALL == 255

TCP_PRIV_USER == 0
TCP_PRIV_ROOT == 1
TCP_PRIV_KERNEL == 2

\* x86-64 syscall numbers named by the descriptor table.
NR_unlink == 87
NR_execve == 59
NR_init_module == 175
NR_getpid == 39

(***************************************************************************)
(* Bit and byte arithmetic.                                                *)
(***************************************************************************)
RECURSIVE BitAnd(_, _)
BitAnd(a, b) ==
    IF a = 0 \/ b = 0 THEN 0
    ELSE (IF a % 2 = 1 /\ b % 2 = 1 THEN 1 ELSE 0) + 2 * BitAnd(a \div 2, b \div 2)

RECURSIVE BitOr(_, _)
BitOr(a, b) ==
    IF a = 0 THEN b
    ELSE IF b = 0 THEN a
    ELSE (IF a % 2 = 1 \/ b % 2 = 1 THEN 1 ELSE 0) + 2 * BitOr(a \div 2, b \div 2)

RECURSIVE BitXor(_, _)
BitXor(a, b) ==
    IF a = 0 THEN b
    ELSE IF b = 0 THEN a
    ELSE ((a + b) % 2) + 2 * BitXor(a \div 2, b \div 2)

\* Little-endian encodings of the u16 and u32 fields of the packed structs.
LE16(v) == << v % 256, (v \div 256) % 256 >>

LE32(v) == << v % 256, (v \div 256) % 256, (v \div 65536) % 256, (v \div 16777216) % 256 >>

\* The field read at byte offset off (0-based) of the buffer.
U8At(buf, off) == buf[off + 1]

U16At(buf, off) == buf[off + 1] + 256 * buf[off + 2]

U32At(buf, off) ==
    buf[off + 1] + 256 * buf[off + 2] + 65536 * buf[off + 3] + 16777216 * buf[off + 4]

Zeros(n) == [i \in 1..n |-> 0]

Min(a, b) == IF a < b THEN a ELSE b

(***************************************************************************)
(* tcp_hardware_crc16: the kernel's "crc32" shash (reflected polynomial    *)
(* 0xEDB88320, seed 0, no final inversion), its low 16 bits; the byte sum  *)
(* when the transform cannot be allocated; 0 when the digest fails.  The   *)
(* 32-bit register is kept as two 16-bit halves <<hi, lo>>.                *)
(***************************************************************************)
CrcShift(c) ==
    LET hi == c[1]
        lo == c[2]
        sh == << hi \div 2, (lo \div 2) + (hi % 2) * 32768 >>
    IN  IF lo % 2 = 1
        THEN << BitXor(sh[1], 60856), BitXor(sh[2], 33568) >>   \* 0xEDB8, 0x8320
        ELSE sh

RECURSIVE CrcBits(_, _)
CrcBits(c, n) ==
    IF n = 0 THEN c
    ELSE LET d == CrcShift(c) IN IF d[2] >= 0 THEN CrcBits(d, n - 1) ELSE d

RECURSIVE Crc32Le(_, _, _, _)
Crc32Le(c, data, i, len) ==
    IF i > len THEN c
    ELSE LET d == CrcBits(<< c[1], BitXor(c[2], data[i]) >>, 8)
         IN  IF d[2] >= 0 THEN Crc32Le(d, data, i + 1, len) ELSE d

RECURSIVE ByteSum(_, _, _)
ByteSum(data, i, len) == IF i > len THEN 0 ELSE data[i] + ByteSum(data, i + 1, len)

\* The ways the crypto layer can answer tcp_hardware_crc16.
CrcModes == {"crc32", "fallback", "err"}

Crc32Low16(data, len) == Crc32Le(<<0, 0>>, data, 1, len)[2]

(***************************************************************************)
(* Descriptor layouts.  struct tcp_classical_descriptor is packed and 22   *)
(* bytes long: magic@0 command_hash@4 security_flags@8 performance_data@12 *)
(* reserved@18 checksum@20; a Classical buffer is 24 bytes, so bytes 22    *)
(* and 23 lie behind the struct.  struct tcp_quantum_descriptor, 32 bytes: *)
(* magic@0 version@4 command_hash@5 security_flags@9 performance_data@13   *)
(* pqc_signature@19 reserved@30.                                           *)
(***************************************************************************)
MkClassical(magic, command_hash, security_flags, checksum) ==
    LE32(magic) \o LE32(command_hash) \o LE32(security_flags) \o Zeros(6) \o LE16(0)
        \o LE16(checksum) \o Zeros(2)

MkQuantum(magic, version, command_hash, security_flags) ==
    LE32(magic) \o << version >> \o LE32(command_hash) \o LE32(security_flags)
        \o Zeros(6) \o Zeros(11) \o LE16(0)

(***************************************************************************)
(* The byte buffers handed to tcp_validate_descriptor_kernel in the model. *)
(* The checksum is computed over the first 22 bytes, which hold the        *)
(* checksum field itself, so a descriptor passes when its checksum is a    *)
(* fixed point: 256 is one for the byte sum of these bodies (the other 20  *)
(* bytes add up to 255), 35098 is the one for the CRC-32 of the first.     *)
(***************************************************************************)
\* Classical, flags 0, checksum right for the byte sum.
D_sum == MkClassical(TCP_MAGIC_CLASSICAL, 22, 0, 256)

\* Classical, flags 0, checksum right for the CRC-32.
D_crc == MkClassical(TCP_MAGIC_CLASSICAL, 22, 0, 35098)

\* D_sum with its checksum corrupted (right for no way of computing it).
D_badsum == MkClassical(TCP_MAGIC_CLASSICAL, 22, 0, 65535)

\* Classical with flag bit 0x0001 set, checksum right for the byte sum.
D_flag1 == MkClassical(TCP_MAGIC_CLASSICAL, 21, 1, 256)

\* 24 bytes carrying the Quantum magic, version byte 3 at offset 4.
D_badmagic == MkClassical(TCP_MAGIC_QUANTUM, 3, 0, 256)

\* Quantum, version 3, flags 0.
Q_ok == MkQuantum(TCP_MAGIC_QUANTUM, 3, 0, 0)

\* Quantum, version 2, otherwise as Q_ok.
Q_v2 == MkQuantum(TCP_MAGIC_QUANTUM, 2, 0, 0)

\* Quantum, version 3, flag bit 0x0001 set.
Q_flag1 == MkQuantum(TCP_MAGIC_QUANTUM, 3, 0, 1)

\* 32 bytes carrying the Classical magic.
Q_badmagic == MkQuantum(TCP_MAGIC_CLASSICAL, 3, 22, 0)

\* The first 8 bytes of D_sum, and the empty buffer.
S_prefix == SubSeq(D_sum, 1, 8)

S_empty == << >>

Buffers ==
    { D_sum, D_crc, D_badsum, D_flag1, D_badmagic, Q_ok, Q_v2, Q_flag1, Q_badmagic,
      S_prefix, S_empty }

\* Classical with flag bit 0x0002 set, checksum right for the byte sum.
D_flag2 == MkClassical(TCP_MAGIC_CLASSICAL, 20, 2, 256)

\* Quantum, version 3, flag bits 0x0001 and 0x0002 set.
Q_flag3 == MkQuantum(TCP_MAGIC_QUANTUM, 3, 0, 3)

\* Buffers for the runs that exercise the policy gate.
PolicyBuffers == { D_sum, D_flag1, D_flag2, Q_ok, Q_flag1, Q_flag3 }

\* The CRC-32 of the checksummed prefixes of the model's buffers, computed once.
Crc32Known ==
    [p \in {SubSeq(b, 1, 22) : b \in {x \in Buffers \cup PolicyBuffers : Len(x) >= 22}}
        |-> Crc32Low16(p, 22)]

tcp_hardware_crc16(data, len, mode) ==
    IF mode = "fallback" THEN ByteSum(data, 1, len) % 65536
    ELSE IF mode = "err" THEN 0
    ELSE IF SubSeq(data, 1, len) \in DOMAIN Crc32Known THEN Crc32Known[SubSeq(data, 1, len)]
    ELSE Crc32Low16(data, len)

\* Buffers with pairwise distinct fingerprints, for runs that fill the ring.
RingBuffers == { D_sum, D_flag1, Q_v2, Q_badmagic }

\* Buffers for the runs that report the statistics.
StatsBuffers == { D_sum, D_badsum, Q_ok, S_empty }

(***************************************************************************)
(* The cache fingerprint (lines 249-264): the first 8 bytes of the SHA-256 *)
(* of the buffer, or, when the transform cannot be allocated, the first    *)
(* min(len, 8) bytes of the buffer zero-padded to 8.  SHA-256 is modelled  *)
(* as a collision-free hash: its truncation is the tagged buffer, which    *)
(* equals no 8-byte sequence and no other buffer's digest.                 *)
(***************************************************************************)
Sha256Trunc8(descriptor) == << "sha256", descriptor >>

FallbackHash(descriptor, len) ==
    [i \in 1..8 |-> IF i <= Min(len, 8) THEN descriptor[i] ELSE 0]

DescriptorHash(descriptor, len, shaOk) ==
    IF shaOk THEN Sha256Trunc8(descriptor) ELSE FallbackHash(descriptor, len)

(***************************************************************************)
(* The ring cache: TCP_CACHE_SIZE entries, slot i in 0..TCP_CACHE_SIZE-1.  *)
(* The timestamp field of an entry is written by the store and never read; *)
(* it is left out.                                                         *)
(***************************************************************************)
Slots == 0..(TCP_CACHE_SIZE - 1)

\* kcalloc: every byte of every entry is zero.
ZeroCache == [i \in Slots |-> [descriptor_hash |-> Zeros(8), validation_result |-> 0]]

\* tcp_cache_lookup: the first slot, in index order, whose hash equals the key.
tcp_cache_lookup(cache, descriptor_hash) ==
    LET matches == {i \in Slots : cache[i].descriptor_hash = descriptor_hash}
    IN  IF matches # {}
        THEN [hit |-> 1,
              result |-> cache[CHOOSE i \in matches : \A j \in matches : i <= j].validation_result]
        ELSE [hit |-> 0, result |-> 0]

\* tcp_cache_store: overwrite the slot at the head, advance the head.
tcp_cache_store_entries(cache, head, descriptor_hash, result) ==
    [cache EXCEPT ![head] = [descriptor_hash |-> descriptor_hash, validation_result |-> result]]

\* (mutant: the head is not advanced)
tcp_cache_store_head_stuck(head) == head

tcp_cache_store_head(head) == (head + 1) % TCP_CACHE_SIZE

(***************************************************************************)
(* The gates.                                                              *)
(***************************************************************************)
tcp_ebpf_security_check(descriptor, len) == IF len = 24 \/ len = 32 THEN 1 ELSE 0

tcp_lsm_security_check(descriptor, len) ==
    IF len = 24 /\ BitAnd(U32At(descriptor, 8), 1) # 0 THEN 0 ELSE 1

\* (mutant: without SGX the gate fails instead of passing)
tcp_sgx_validation_required(descriptor, len, features) ==
    IF BitAnd(features, TCP_HW_SGX) = 0 THEN 0 ELSE 1

tcp_sgx_validation(descriptor, len, features) ==
    IF BitAnd(features, TCP_HW_SGX) = 0 THEN 1 ELSE 1

tcp_tpm_attestation(descriptor, len, features) ==
    IF BitAnd(features, TCP_HW_TPM) = 0 THEN 1 ELSE 1

(***************************************************************************)
(* Lines 274-333 of tcp_validate_descriptor_kernel: the format and         *)
(* integrity checks and the gate pipeline, run on a cache miss.  The       *)
(* value is the result and the sequence of gates that were called.         *)
(***************************************************************************)
\* (mutant: the version of a Quantum descriptor is not checked)
FormatCheck_AnyVersion(descriptor, len, crcMode) ==
    IF len = 24
    THEN IF U32At(descriptor, 0) # TCP_MAGIC_CLASSICAL THEN -EINVAL
         ELSE IF tcp_hardware_crc16(descriptor, 22, crcMode) # U16At(descriptor, 20) THEN -EINVAL
         ELSE 0
    ELSE IF len = 32
    THEN IF U32At(descriptor, 0) # TCP_MAGIC_QUANTUM THEN -EINVAL ELSE 0
    ELSE -EINVAL

FormatCheck(descriptor, len, crcMode) ==
    IF len = 24
    THEN IF U32At(descriptor, 0) # TCP_MAGIC_CLASSICAL THEN -EINVAL
         ELSE IF tcp_hardware_crc16(descriptor, 22, crcMode) # U16At(descriptor, 20) THEN -EINVAL
         ELSE 0
    ELSE IF len = 32
    THEN IF U32At(descriptor, 0) # TCP_MAGIC_QUANTUM THEN -EINVAL
         ELSE IF U8At(descriptor, 4) < 3 THEN -EINVAL
         ELSE 0
    ELSE -EINVAL

GatePipeline(descriptor, len, features) ==
    IF tcp_lsm_security_check(descriptor, len) = 0
    THEN [result |-> -EACCES, gates |-> << "lsm" >>]
    ELSE IF tcp_ebpf_security_check(descriptor, len) = 0
    THEN [result |-> -EACCES, gates |-> << "lsm", "ebpf" >>]
    ELSE IF tcp_sgx_validation(descriptor, len, features) = 0
    THEN [result |-> -EACCES, gates |-> << "lsm", "ebpf", "sgx" >>]
    ELSE IF tcp_tpm_attestation(descriptor, len, features) = 0
    THEN [result |-> -EACCES, gates |-> << "lsm", "ebpf", "sgx", "tpm" >>]
    ELSE [result |-> 1, gates |-> << "lsm", "ebpf", "sgx", "tpm" >>]

ValidateOnMiss(descriptor, len, crcMode, features) ==
    IF FormatCheck(descriptor, len, crcMode) # 0
    THEN [result |-> FormatCheck(descriptor, len, crcMode), gates |-> << >>]
    ELSE GatePipeline(descriptor, len, features)

(***************************************************************************)
(* The syscall path: the descriptor table and its lookup.  The pattern     *)
(* and checksum fields of an entry are read by no decision and are left    *)
(* out.                                                                    *)
(***************************************************************************)
tcp_descriptors ==
    << [syscall_nr |-> NR_unlink,
        security_flags |-> BitOr(TCP_FLAG_DESTRUCTIVE, TCP_FLAG_FILESYSTEM),
        context_mask |-> BitOr(TCP_CTX_USER, TCP_CTX_ADMIN),
        privilege_level |-> TCP_PRIV_USER],
       [syscall_nr |-> NR_execve,
        security_flags |-> BitOr(TCP_FLAG_EXECUTION, TCP_FLAG_CRITICAL),
        context_mask |-> TCP_CTX_ALL,
        privilege_level |-> TCP_PRIV_USER],
       [syscall_nr |-> NR_init_module,
        security_flags |-> BitOr(TCP_FLAG_CRITICAL, BitOr(TCP_FLAG_KERNEL, TCP_FLAG_DESTRUCTIVE)),
        context_mask |-> BitOr(TCP_CTX_ADMIN, TCP_CTX_KERNEL),
        privilege_level |-> TCP_PRIV_ROOT],
       [syscall_nr |-> NR_getpid,
        security_flags |-> TCP_FLAG_SAFE,
        context_mask |-> TCP_CTX_ALL,
        privilege_level |-> TCP_PRIV_USER] >>

TCP_DESCRIPTOR_COUNT == Len(tcp_descriptors)

\* (mutant: the first entry instead of NULL when no entry matches)
tcp_find_descriptor_first(syscall_nr) ==
    LET found == {i \in 1..TCP_DESCRIPTOR_COUNT : tcp_descriptors[i].syscall_nr = syscall_nr}
    IN  IF found = {} THEN 1 ELSE CHOOSE i \in found : \A j \in found : i <= j

\* The index of the first entry with this syscall number, 0 for NULL.
tcp_find_descriptor(syscall_nr) ==
    LET found == {i \in 1..TCP_DESCRIPTOR_COUNT : tcp_descriptors[i].syscall_nr = syscall_nr}
    IN  IF found = {} THEN 0 ELSE CHOOSE i \in found : \A j \in found : i <= j

\* (mutant: the caller's context also carries the Kernel bit)
tcp_check_context_kernel(desc, uid0, contained) ==
    LET who == IF uid0 THEN TCP_CTX_ADMIN ELSE TCP_CTX_USER
        current_context == IF contained THEN BitOr(who, TCP_CTX_CONTAINER) ELSE who
    IN  BitAnd(desc.context_mask, BitOr(current_context, TCP_CTX_KERNEL)) # 0

\* uid0: current->cred->uid.val == 0; contained: current->nsproxy != &init_nsproxy.
tcp_check_context(desc, uid0, contained) ==
    LET who == IF uid0 THEN TCP_CTX_ADMIN ELSE TCP_CTX_USER
        current_context == IF contained THEN BitOr(who, TCP_CTX_CONTAINER) ELSE who
    IN  BitAnd(desc.context_mask, current_context) # 0

\* The syscall numbers and the security levels the model calls with.
SyscallNrs == {NR_unlink, NR_execve, NR_init_module, NR_getpid, 0}

SecurityLevels == 0..6

(***************************************************************************)
(* State.                                                                  *)
(***************************************************************************)
VARIABLES
    \* descriptor path: tcp_ctx, tcp_cache, tcp_cache_head
    hardware_features, validation_count, cache_hits, security_violations, total_time_ns,
    tcp_cache, tcp_cache_head,
    \* descriptor path, history: the last evaluation, the last TCP_CACHE_SIZE + 2
    \* stores, the last /proc report
    last, stored, proc_out,
    \* syscall path: tcp_state
    enabled, security_level,
    total_checks, fast_path_hits, blocked_operations, security_events, false_positives,
    \* syscall path, history: the last call of tcp_analyze_syscall
    sys_last,
    \* concurrent callers: where each thread stands inside
    \* tcp_validate_descriptor_kernel, with its locals
    desc_threads,
    \* concurrent callers: where each thread stands inside tcp_analyze_syscall;
    \* history: what the completed calls add up to, each taken by itself
    sys_threads, sys_expect

ctxVars == << hardware_features, validation_count, cache_hits, security_violations, total_time_ns >>

cacheVars == << tcp_cache, tcp_cache_head >>

descVars == << ctxVars, cacheVars, last, stored, proc_out >>

statsVars == << total_checks, fast_path_hits, blocked_operations, security_events, false_positives >>

sysVars == << enabled, security_level, statsVars, sys_last >>

sysConcVars == << sys_threads, sys_expect >>

concVars == << desc_threads, sysConcVars >>

vars == << descVars, sysVars, concVars >>

(***************************************************************************)
(* Initial state: both modules loaded (the two tcp_kernel_init ran).       *)
(***************************************************************************)
\* tcp_detect_hardware_features; the arguments are what the host reports.
tcp_detect_hardware_features(sgx, cet, pt, mpk, tpm) ==
    LET f0 == BitOr(TCP_HW_LSM, BitOr(TCP_HW_EBPF, TCP_HW_PMU))
        f1 == IF sgx THEN BitOr(f0, TCP_HW_SGX) ELSE f0
        f2 == IF cet THEN BitOr(f1, TCP_HW_CET) ELSE f1
        f3 == IF pt THEN BitOr(f2, TCP_HW_PT) ELSE f2
        f4 == IF mpk THEN BitOr(f3, TCP_HW_MPK) ELSE f3
    IN  IF tpm THEN BitOr(f4, TCP_HW_TPM) ELSE f4

\* The hosts of the model: <<sgx, cet, pt, mpk, tpm>>.
Hosts ==
    { << FALSE, FALSE, FALSE, FALSE, FALSE >>, << TRUE, FALSE, FALSE, FALSE, FALSE >>,
      << FALSE, FALSE, FALSE, FALSE, TRUE >>, << TRUE, TRUE, TRUE, TRUE, TRUE >> }

NoEval == [called |-> FALSE, descriptor |-> << >>, shaOk |-> FALSE, hit |-> FALSE, ret |-> 0,
           gates |-> << >>, count0 |-> 0, hits0 |-> 0]

NoReport == [shown |-> FALSE, count |-> 0, hits |-> 0, avg_time_ns |-> 0, cache_hit_rate |-> 0,
             div_fault |-> FALSE]

NoSyscall == [called |-> FALSE, syscall_nr |-> 0, uid0 |-> FALSE, contained |-> FALSE,
              level |-> 0, enabled |-> FALSE, ret |-> 0,
              checks0 |-> 0, fast0 |-> 0, blocked0 |-> 0, events0 |-> 0]

\* tcp_kernel_init of the descriptor module (lines 409-438).
DescInitOn(hosts) ==
    /\ \E h \in hosts : hardware_features = tcp_detect_hardware_features(h[1], h[2], h[3], h[4], h[5])
    /\ validation_count = 0
    /\ cache_hits = 0
    /\ security_violations = 0
    /\ total_time_ns = 0
    /\ tcp_cache = ZeroCache
    /\ tcp_cache_head = 0
    /\ last = NoEval
    /\ stored = << >>
    /\ proc_out = NoReport

\* tcp_kernel_init of the syscall module (lines 280-321).
SysInit ==
    /\ enabled = TRUE
    /\ security_level = 1
    /\ total_checks = 0
    /\ fast_path_hits = 0
    /\ blocked_operations = 0
    /\ security_events = 0
    /\ false_positives = 0
    /\ sys_last = NoSyscall

\* The threads that call into the modules concurrently.
Threads == {1, 2}

\* A thread outside tcp_validate_descriptor_kernel.
IdleCall == [pc |-> "idle", descriptor |-> << >>, descriptor_hash |-> << >>, result |-> 0,
             i |-> 0, entry |-> 0, head |-> 0, hit |-> FALSE, ret |-> 0]

\* A thread outside tcp_analyze_syscall.
IdleSyscall == [pc |-> "idle", syscall_nr |-> 0, uid0 |-> FALSE, contained |-> FALSE,
                level |-> 0, overlap |-> FALSE, ret |-> 0]

NoneCompleted == [n |-> 0, checks |-> 0, fast |-> 0, blocked |-> 0, events |-> 0]

ConcInit ==
    /\ desc_threads = [t \in Threads |-> IdleCall]
    /\ sys_threads = [t \in Threads |-> IdleSyscall]
    /\ sys_expect = NoneCompleted

Init == DescInitOn(Hosts) /\ SysInit /\ ConcInit

\* One host with every optional feature.
InitFull == DescInitOn({ << TRUE, TRUE, TRUE, TRUE, TRUE >> }) /\ SysInit /\ ConcInit

\* One host with no optional feature.
InitBare == DescInitOn({ << FALSE, FALSE, FALSE, FALSE, FALSE >> }) /\ SysInit /\ ConcInit

(***************************************************************************)
(* Descriptor path: tcp_validate_descriptor_kernel (lines 237-350).        *)
(* shaOk: crypto_alloc_shash("sha256") succeeded; crcMode: how             *)
(* tcp_hardware_crc16 is answered; dt: end_time - start_time.              *)
(***************************************************************************)
KeepLast(s, n) == IF Len(s) > n THEN SubSeq(s, Len(s) - n + 1, Len(s)) ELSE s

tcp_validate_descriptor_kernel(descriptor, shaOk, crcMode, dt) ==
    LET len == Len(descriptor)
        descriptor_hash == DescriptorHash(descriptor, len, shaOk)
        cached == tcp_cache_lookup(tcp_cache, descriptor_hash)
        v == ValidateOnMiss(descriptor, len, crcMode, hardware_features)
        stored_result == IF v.result > 0 THEN 1 ELSE 0
        call == [called |-> TRUE, descriptor |-> descriptor, shaOk |-> shaOk,
                 count0 |-> validation_count, hits0 |-> cache_hits]
    IN  IF cached.hit = 1
        THEN /\ cache_hits' = cache_hits + 1
             /\ last' = call @@ [hit |-> TRUE, ret |-> cached.result, gates |-> << >>]
             /\ UNCHANGED << hardware_features, validation_count, security_violations,
                             total_time_ns, cacheVars, stored, proc_out >>
        ELSE /\ tcp_cache' = tcp_cache_store_entries(tcp_cache, tcp_cache_head,
                                                     descriptor_hash, stored_result)
             /\ tcp_cache_head' = tcp_cache_store_head(tcp_cache_head)
             /\ validation_count' = validation_count + 1
             /\ total_time_ns' = total_time_ns + dt
             /\ security_violations' = IF v.result <= 0 THEN security_violations + 1
                                       ELSE security_violations
             /\ last' = call @@ [hit |-> FALSE, ret |-> v.result, gates |-> v.gates]
             /\ stored' = KeepLast(Append(stored, [descriptor_hash |-> descriptor_hash,
                                                   validation_result |-> stored_result]),
                                   TCP_CACHE_SIZE + 2)
             /\ UNCHANGED << hardware_features, cache_hits, proc_out >>

(***************************************************************************)
(* tcp_proc_show of the descriptor module (lines 353-394): the derived     *)
(* figures of the report.  A division by zero is recorded as div_fault.    *)
(***************************************************************************)
UDiv(a, b) == IF b = 0 THEN [q |-> 0, fault |-> TRUE] ELSE [q |-> a \div b, fault |-> FALSE]

AvgTimeNs(count, time) ==
    IF count > 0 THEN UDiv(time, count) ELSE [q |-> 0, fault |-> FALSE]

\* (mutant: the rate is guarded by the hits, not by the count)
CacheHitRate_GuardHits(count, hits) ==
    IF hits > 0 THEN UDiv(hits * 100, count) ELSE [q |-> 0, fault |-> FALSE]

CacheHitRate(count, hits) ==
    IF count > 0 THEN UDiv(hits * 100, count) ELSE [q |-> 0, fault |-> FALSE]

tcp_proc_show ==
    /\ proc_out' = [shown |-> TRUE, count |-> validation_count, hits |-> cache_hits,
                    avg_time_ns |-> AvgTimeNs(validation_count, total_time_ns).q,
                    cache_hit_rate |-> CacheHitRate(validation_count, cache_hits).q,
                    div_fault |-> AvgTimeNs(validation_count, total_time_ns).fault
                                  \/ CacheHitRate(validation_count, cache_hits).fault]
    /\ UNCHANGED << ctxVars, cacheVars, last, stored >>

(***************************************************************************)
(* Syscall path: tcp_analyze_syscall (lines 163-219).  AnalyzeOutcome is   *)
(* the return value and the increments of the four counters the function   *)
(* touches; the action applies them (each atomic64_inc is atomic, and the  *)
(* calls of this specification do not overlap).                            *)
(***************************************************************************)
Outcome(ret, checks, fast, blocked, events) ==
    [ret |-> ret, checks |-> checks, fast |-> fast, blocked |-> blocked, events |-> events]

HasFlag(desc, flag) == BitAnd(desc.security_flags, flag) # 0

\* (mutant: the Critical escalation denies without counting a blocked operation)
AnalyzeKnown_CriticalUncounted(desc, uid0, contained, level) ==
    IF HasFlag(desc, TCP_FLAG_SAFE) THEN Outcome(0, 1, 1, 0, 0)
    ELSE IF ~tcp_check_context(desc, uid0, contained) THEN Outcome(-EPERM, 1, 0, 1, 0)
    ELSE IF HasFlag(desc, TCP_FLAG_CRITICAL) /\ level >= 2 /\ ~uid0 THEN Outcome(-EPERM, 1, 0, 0, 1)
    ELSE Outcome(0, 1, 0, 0,
                 (IF HasFlag(desc, TCP_FLAG_CRITICAL) THEN 1 ELSE 0)
                     + (IF HasFlag(desc, TCP_FLAG_DESTRUCTIVE) THEN 1 ELSE 0))

\* (mutant: a Destructive call is denied where the code only logs it)
AnalyzeKnown_DestructiveDenies(desc, uid0, contained, level) ==
    IF HasFlag(desc, TCP_FLAG_SAFE) THEN Outcome(0, 1, 1, 0, 0)
    ELSE IF ~tcp_check_context(desc, uid0, contained) THEN Outcome(-EPERM, 1, 0, 1, 0)
    ELSE IF HasFlag(desc, TCP_FLAG_CRITICAL) /\ level >= 2 /\ ~uid0 THEN Outcome(-EPERM, 1, 0, 1, 1)
    ELSE IF HasFlag(desc, TCP_FLAG_DESTRUCTIVE)
    THEN Outcome(-EPERM, 1, 0, 1, (IF HasFlag(desc, TCP_FLAG_CRITICAL) THEN 1 ELSE 0) + 1)
    ELSE Outcome(0, 1, 0, 0, IF HasFlag(desc, TCP_FLAG_CRITICAL) THEN 1 ELSE 0)

AnalyzeKnown(desc, uid0, contained, level) ==
    IF HasFlag(desc, TCP_FLAG_SAFE) THEN Outcome(0, 1, 1, 0, 0)
    ELSE IF ~tcp_check_context(desc, uid0, contained) THEN Outcome(-EPERM, 1, 0, 1, 0)
    ELSE IF HasFlag(desc, TCP_FLAG_CRITICAL) /\ level >= 2 /\ ~uid0 THEN Outcome(-EPERM, 1, 0, 1, 1)
    ELSE Outcome(0, 1, 0, 0,
                 (IF HasFlag(desc, TCP_FLAG_CRITICAL) THEN 1 ELSE 0)
                     + (IF HasFlag(desc, TCP_FLAG_DESTRUCTIVE) THEN 1 ELSE 0))

\* (mutant: total_checks is counted before the enabled flag is tested)
AnalyzeOutcome_CountsDisabled(syscall_nr, uid0, contained, en, level) ==
    IF ~en THEN Outcome(0, 1, 0, 0, 0)
    ELSE IF tcp_find_descriptor(syscall_nr) = 0 THEN Outcome(0, 1, 1, 0, 0)
    ELSE AnalyzeKnown(tcp_descriptors[tcp_find_descriptor(syscall_nr)], uid0, contained, level)

\* (mutant: once a call was blocked, every known syscall is denied)
AnalyzeOutcome_Lockdown(syscall_nr, uid0, contained, en, level) ==
    IF ~en THEN Outcome(0, 0, 0, 0, 0)
    ELSE IF tcp_find_descriptor(syscall_nr) = 0 THEN Outcome(0, 1, 1, 0, 0)
    ELSE IF blocked_operations > 0 THEN Outcome(-EPERM, 1, 0, 1, 0)
    ELSE AnalyzeKnown(tcp_descriptors[tcp_find_descriptor(syscall_nr)], uid0, contained, level)

AnalyzeOutcome(syscall_nr, uid0, contained, en, level) ==
    IF ~en THEN Outcome(0, 0, 0, 0, 0)
    ELSE IF tcp_find_descriptor(syscall_nr) = 0 THEN Outcome(0, 1, 1, 0, 0)
    ELSE AnalyzeKnown(tcp_descriptors[tcp_find_descriptor(syscall_nr)], uid0, contained, level)

tcp_analyze_syscall(syscall_nr, uid0, contained) ==
    LET o == AnalyzeOutcome(syscall_nr, uid0, contained, enabled, security_level)
    IN  /\ total_checks' = total_checks + o.checks
        /\ fast_path_hits' = fast_path_hits + o.fast
        /\ blocked_operations' = blocked_operations + o.blocked
        /\ security_events' = security_events + o.events
        /\ sys_last' = [called |-> TRUE, syscall_nr |-> syscall_nr, uid0 |-> uid0,
                        contained |-> contained, level |-> security_level,
                        enabled |-> enabled, ret |-> o.ret,
                        checks0 |-> total_checks, fast0 |-> fast_path_hits,
                        blocked0 |-> blocked_operations, events0 |-> security_events]
        /\ UNCHANGED << enabled, security_level, false_positives >>

(***************************************************************************)
(* tcp_analyze_syscall called by several threads at once.  Each action     *)
(* below is one access to shared memory by thread t: the read of           *)
(* tcp_state.enabled, one atomic64_inc, the read of                        *)
(* tcp_state.security_level.  The table, the flags and the caller's        *)
(* credentials are not shared, so the branch taken after an access is      *)
(* computed with it.                                                       *)
(***************************************************************************)
InSyscall(t) == sys_threads[t].pc \notin {"idle", "done"}

\* (mutant: the update is lost)
atomic64_inc_lost(v) == v

atomic64_inc(v) == v + 1

\* Lines 176-196: where the call goes after total_checks was counted.
AfterCount(c) ==
    LET found == tcp_find_descriptor(c.syscall_nr)
        desc == tcp_descriptors[found]
    IN  IF found = 0 THEN "fast"
        ELSE IF HasFlag(desc, TCP_FLAG_SAFE) THEN "fast"
        ELSE IF ~tcp_check_context(desc, c.uid0, c.contained) THEN "blocked"
        ELSE IF HasFlag(desc, TCP_FLAG_CRITICAL) THEN "event_critical"
        ELSE IF HasFlag(desc, TCP_FLAG_DESTRUCTIVE) THEN "event_destructive"
        ELSE "return"

\* Lines 204-212: where the call goes after security_level was read.
AfterLevel(c, level) ==
    IF level >= 2 /\ ~c.uid0 THEN "blocked"
    ELSE IF HasFlag(tcp_descriptors[tcp_find_descriptor(c.syscall_nr)], TCP_FLAG_DESTRUCTIVE)
    THEN "event_destructive"
    ELSE "return"

\* The call with the locals c returns: its outcome, taken by itself, is added
\* to the history.
Completed(c) ==
    LET o == AnalyzeOutcome(c.syscall_nr, c.uid0, c.contained, TRUE, c.level)
    IN  [n |-> sys_expect.n + 1,
         checks |-> sys_expect.checks + o.checks,
         fast |-> sys_expect.fast + o.fast,
         blocked |-> sys_expect.blocked + o.blocked,
         events |-> sys_expect.events + o.events]

\* A thread whose call has returned ret: the locals are gone.
Returned(c, ret) == [IdleSyscall EXCEPT !.pc = "done", !.overlap = c.overlap, !.ret = ret]

\* Thread t, with the locals c, moves to pc; at "return" the call is over.
Goto(t, c, pc, ret) ==
    /\ sys_threads' = [sys_threads EXCEPT
                           ![t] = IF pc = "return" THEN Returned(c, ret) ELSE [c EXCEPT !.pc = pc]]
    /\ sys_expect' = IF pc = "return" THEN Completed(c) ELSE sys_expect

\* The call begins (line 163).
sys_begin(t, syscall_nr, uid0, contained) ==
    /\ ~InSyscall(t)
    /\ sys_threads' =
           [sys_threads EXCEPT ![t] =
               [IdleSyscall EXCEPT !.pc = "enabled", !.syscall_nr = syscall_nr, !.uid0 = uid0,
                                   !.contained = contained, !.level = security_level,
                                   !.overlap = \E u \in Threads : InSyscall(u)]]
    /\ UNCHANGED << sys_expect, enabled, security_level, statsVars, sys_last >>

\* Line 168: if (!tcp_state.enabled) return 0.
sys_enabled(t) ==
    /\ sys_threads[t].pc = "enabled"
    /\ sys_threads' = [sys_threads EXCEPT
                           ![t] = IF enabled THEN [@ EXCEPT !.pc = "count"] ELSE Returned(@, 0)]
    /\ UNCHANGED << sys_expect, enabled, security_level, statsVars, sys_last >>

\* Line 173: atomic64_inc(&tcp_state.stats.total_checks).
sys_count(t) ==
    /\ sys_threads[t].pc = "count"
    /\ total_checks' = atomic64_inc(total_checks)
    /\ Goto(t, sys_threads[t], AfterCount(sys_threads[t]), 0)
    /\ UNCHANGED << enabled, security_level, fast_path_hits, blocked_operations,
                    security_events, false_positives, sys_last >>

\* Lines 179 and 185: atomic64_inc(&tcp_state.stats.fast_path_hits); return 0.
sys_fast(t) ==
    /\ sys_threads[t].pc = "fast"
    /\ fast_path_hits' = atomic64_inc(fast_path_hits)
    /\ Goto(t, sys_threads[t], "return", 0)
    /\ UNCHANGED << enabled, security_level, total_checks, blocked_operations,
                    security_events, false_positives, sys_last >>

\* Lines 193 and 206: atomic64_inc(&tcp_state.stats.blocked_operations); return -EPERM.
sys_blocked(t) ==
    /\ sys_threads[t].pc = "blocked"
    /\ blocked_operations' = atomic64_inc(blocked_operations)
    /\ Goto(t, sys_threads[t], "return", -EPERM)
    /\ UNCHANGED << enabled, security_level, total_checks, fast_path_hits,
                    security_events, false_positives, sys_last >>

\* Line 201: atomic64_inc(&tcp_state.stats.security_events) for a Critical call.
sys_event_critical(t) ==
    /\ sys_threads[t].pc = "event_critical"
    /\ security_events' = atomic64_inc(security_events)
    /\ Goto(t, sys_threads[t], "level", 0)
    /\ UNCHANGED << enabled, security_level, total_checks, fast_path_hits,
                    blocked_operations, false_positives, sys_last >>

\* Line 204: the read of tcp_state.security_level.
sys_level(t) ==
    /\ sys_threads[t].pc = "level"
    /\ Goto(t, [sys_threads[t] EXCEPT !.level = security_level],
            AfterLevel(sys_threads[t], security_level), 0)
    /\ UNCHANGED << enabled, security_level, statsVars, sys_last >>

\* Line 216: atomic64_inc(&tcp_state.stats.security_events) for a Destructive
\* call; return 0.
sys_event_destructive(t) ==
    /\ sys_threads[t].pc = "event_destructive"
    /\ security_events' = atomic64_inc(security_events)
    /\ Goto(t, sys_threads[t], "return", 0)
    /\ UNCHANGED << enabled, security_level, total_checks, fast_path_hits,
                    blocked_operations, false_positives, sys_last >>

\* (mutant: the unload also clears the statistics)
tcp_kernel_exit_reset ==
    /\ enabled
    /\ enabled' = FALSE
    /\ total_checks' = 0
    /\ fast_path_hits' = 0
    /\ blocked_operations' = 0
    /\ security_events' = 0
    /\ UNCHANGED << security_level, false_positives, sys_last >>

\* tcp_kernel_exit of the syscall module (lines 324-346): clears the flag; the
\* probe is unregistered later, so calls can still arrive.
tcp_kernel_exit ==
    /\ enabled
    /\ enabled' = FALSE
    /\ UNCHANGED << security_level, statsVars, sys_last >>

\* The host sets tcp_state.security_level (spec, section 6: security_level 0..6).
SetSecurityLevel(level) ==
    /\ security_level # level
    /\ security_level' = level
    /\ UNCHANGED << enabled, statsVars, sys_last >>

(***************************************************************************)
(* tcp_validate_descriptor_kernel called by several threads at once.  The  *)
(* cache is read and written without a lock (lines 124-151); only the      *)
(* statistics are updated under tcp_ctx.lock.  Each action below is one    *)
(* access to shared memory by thread t: a compare of one slot's hash, a    *)
(* read of its result, a load of tcp_cache_head, the write of the hash,    *)
(* the write of the result, the load and the store of the head update,     *)
(* and the locked statistics section.  The format checks and the gates     *)
(* read only the caller's buffer and the immutable hardware_features, so   *)
(* their result is computed when the call begins.                          *)
(***************************************************************************)
InCall(t) == desc_threads[t].pc \notin {"idle", "done"}

\* Lines 247-264: the call begins, the fingerprint is computed.
call_begin(t, descriptor, shaOk, crcMode) ==
    /\ ~InCall(t)
    /\ desc_threads' =
           [desc_threads EXCEPT ![t] =
               [IdleCall EXCEPT
                   !.pc = "lookup_cmp",
                   !.descriptor = descriptor,
                   !.descriptor_hash = DescriptorHash(descriptor, Len(descriptor), shaOk),
                   !.result = ValidateOnMiss(descriptor, Len(descriptor), crcMode,
                                             hardware_features).result]]
    /\ UNCHANGED << ctxVars, cacheVars, last, stored, proc_out >>

\* Lines 130-132: memcmp of the hash of slot i; the next slot, or the miss.
lookup_cmp(t) ==
    LET c == desc_threads[t]
    IN  /\ c.pc = "lookup_cmp"
        /\ desc_threads' =
               [desc_threads EXCEPT ![t] =
                   IF tcp_cache[c.i].descriptor_hash = c.descriptor_hash
                   THEN [c EXCEPT !.pc = "lookup_read"]
                   ELSE IF c.i + 1 < TCP_CACHE_SIZE
                   THEN [c EXCEPT !.i = c.i + 1]
                   ELSE [c EXCEPT !.pc = "store_entry"]]
        /\ UNCHANGED << ctxVars, cacheVars, last, stored, proc_out >>

\* Line 133: *result = entry->validation_result.
lookup_read(t) ==
    LET c == desc_threads[t]
    IN  /\ c.pc = "lookup_read"
        /\ desc_threads' =
               [desc_threads EXCEPT ![t] =
                   [c EXCEPT !.pc = "hit_stats", !.hit = TRUE,
                             !.ret = tcp_cache[c.i].validation_result]]
        /\ UNCHANGED << ctxVars, cacheVars, last, stored, proc_out >>

\* Lines 268-271: cache_hits++ under the lock, return cached_result.
hit_stats(t) ==
    /\ desc_threads[t].pc = "hit_stats"
    /\ cache_hits' = cache_hits + 1
    /\ desc_threads' = [desc_threads EXCEPT ![t].pc = "done"]
    /\ UNCHANGED << hardware_features, validation_count, security_violations, total_time_ns,
                    cacheVars, last, stored, proc_out >>

\* Line 145: entry = &tcp_cache[tcp_cache_head].
store_entry(t) ==
    /\ desc_threads[t].pc = "store_entry"
    /\ desc_threads' = [desc_threads EXCEPT ![t].pc = "store_hash", ![t].entry = tcp_cache_head]
    /\ UNCHANGED << ctxVars, cacheVars, last, stored, proc_out >>

\* Line 146: memcpy(entry->descriptor_hash, descriptor_hash, 8).
store_hash(t) ==
    LET c == desc_threads[t]
    IN  /\ c.pc = "store_hash"
        /\ tcp_cache' = [tcp_cache EXCEPT ![c.entry].descriptor_hash = c.descriptor_hash]
        /\ desc_threads' = [desc_threads EXCEPT ![t].pc = "store_result"]
        /\ UNCHANGED << ctxVars, tcp_cache_head, last, stored, proc_out >>

\* Line 147: entry->validation_result = result (result > 0 ? 1 : 0, line 337).
store_result(t) ==
    LET c == desc_threads[t]
    IN  /\ c.pc = "store_result"
        /\ tcp_cache' = [tcp_cache EXCEPT ![c.entry].validation_result =
                                              IF c.result > 0 THEN 1 ELSE 0]
        /\ desc_threads' = [desc_threads EXCEPT ![t].pc = "store_head_load"]
        /\ UNCHANGED << ctxVars, tcp_cache_head, last, stored, proc_out >>

\* Line 150, the load of tcp_cache_head: the value in memory, or the value
\* loaded at line 145 when the compiler keeps it in a register.
store_head_load(t) ==
    LET c == desc_threads[t]
    IN  /\ c.pc = "store_head_load"
        /\ \E head \in {tcp_cache_head, c.entry} :
               desc_threads' = [desc_threads EXCEPT ![t].pc = "store_head_store",
                                                    ![t].head = head]
        /\ UNCHANGED << ctxVars, cacheVars, last, stored, proc_out >>

\* Line 150, the store to tcp_cache_head.
store_head_store(t) ==
    LET c == desc_threads[t]
    IN  /\ c.pc = "store_head_store"
        /\ tcp_cache_head' = tcp_cache_store_head(c.head)
        /\ desc_threads' = [desc_threads EXCEPT ![t].pc = "miss_stats"]
        /\ UNCHANGED << ctxVars, tcp_cache, last, stored, proc_out >>

\* Lines 340-349: the statistics under the lock, return result.
miss_stats(t) ==
    LET c == desc_threads[t]
    IN  /\ c.pc = "miss_stats"
        /\ validation_count' = validation_count + 1
        /\ total_time_ns' = total_time_ns + 1
        /\ security_violations' = IF c.result <= 0 THEN security_violations + 1
                                  ELSE security_violations
        /\ desc_threads' = [desc_threads EXCEPT ![t].pc = "done", ![t].ret = c.result]
        /\ UNCHANGED << hardware_features, cache_hits, cacheVars, last, stored, proc_out >>

(***************************************************************************)
(* Specifications.                                                         *)
(***************************************************************************)
\* One evaluation of a buffer of the set bufs, taking one of the times of elapsed.
Evaluate(bufs, elapsed) ==
    /\ \E d \in bufs, shaOk \in BOOLEAN, crcMode \in CrcModes, dt \in elapsed :
           tcp_validate_descriptor_kernel(d, shaOk, crcMode, dt)
    /\ UNCHANGED << sysVars, concVars >>

\* SpecDesc: up to MaxEvals sequential evaluations of the buffers of Buffers.
DescEvaluate == validation_count + cache_hits < MaxEvals /\ Evaluate(Buffers, {1})

DescNext == DescEvaluate

SpecDesc == InitFull /\ [][DescNext]_vars

\* SpecRing: sequential evaluations that fill the ring and wrap around.
RingEvaluate ==
    validation_count + cache_hits < TCP_CACHE_SIZE + 2 /\ Evaluate(RingBuffers, {1})

RingNext == RingEvaluate

SpecRing == InitBare /\ [][RingNext]_vars

\* SpecStats: evaluations and reports of the statistics.
StatsEvaluate ==
    validation_count + cache_hits < MaxEvals /\ Evaluate(StatsBuffers, {1, 3})

StatsProcShow == tcp_proc_show /\ UNCHANGED << sysVars, concVars >>

StatsNext == StatsEvaluate \/ StatsProcShow

SpecStats == InitBare /\ [][StatsNext]_vars

\* SpecPolicy: sequential evaluations of well-formed descriptors with and without
\* the flag bits the policy gate is about.
PolicyEvaluate ==
    validation_count + cache_hits < MaxEvals /\ Evaluate(PolicyBuffers, {1})

PolicyNext == PolicyEvaluate

SpecPolicy == InitFull /\ [][PolicyNext]_vars

\* SpecDescConc: two threads evaluate descriptors concurrently; the fingerprint
\* is the SHA-256 one and the checksum the byte sum.
ConcBuffers == { D_sum, D_flag1, Q_ok }

\* The calls begun so far.
ConcBegun == validation_count + cache_hits + Cardinality({t \in Threads : InCall(t)})

ConcBegin ==
    /\ ConcBegun < TCP_CACHE_SIZE + 2
    /\ \E t \in Threads, d \in ConcBuffers : call_begin(t, d, TRUE, "fallback")
    /\ UNCHANGED << sysVars, sysConcVars >>

ConcLookupCmp == (\E t \in Threads : lookup_cmp(t)) /\ UNCHANGED << sysVars, sysConcVars >>

ConcLookupRead == (\E t \in Threads : lookup_read(t)) /\ UNCHANGED << sysVars, sysConcVars >>

ConcHitStats == (\E t \in Threads : hit_stats(t)) /\ UNCHANGED << sysVars, sysConcVars >>

ConcStoreEntry == (\E t \in Threads : store_entry(t)) /\ UNCHANGED << sysVars, sysConcVars >>

ConcStoreHash == (\E t \in Threads : store_hash(t)) /\ UNCHANGED << sysVars, sysConcVars >>

ConcStoreResult == (\E t \in Threads : store_result(t)) /\ UNCHANGED << sysVars, sysConcVars >>

ConcStoreHeadLoad == (\E t \in Threads : store_head_load(t)) /\ UNCHANGED << sysVars, sysConcVars >>

ConcStoreHeadStore == (\E t \in Threads : store_head_store(t)) /\ UNCHANGED << sysVars, sysConcVars >>

ConcMissStats == (\E t \in Threads : miss_stats(t)) /\ UNCHANGED << sysVars, sysConcVars >>

ConcNext ==
    \/ ConcBegin
    \/ ConcLookupCmp
    \/ ConcLookupRead
    \/ ConcHitStats
    \/ ConcStoreEntry
    \/ ConcStoreHash
    \/ ConcStoreResult
    \/ ConcStoreHeadLoad
    \/ ConcStoreHeadStore
    \/ ConcMissStats

SpecDescConc == InitBare /\ [][ConcNext]_vars

\* SpecSysConc: two threads call tcp_analyze_syscall concurrently while the
\* module is enabled and the security level moves between 1 and 2.
SysConcBegun == sys_expect.n + Cardinality({t \in Threads : InSyscall(t)})

SysConcBegin ==
    /\ SysConcBegun < MaxChecks
    /\ \E t \in Threads, nr \in SyscallNrs, uid0 \in BOOLEAN : sys_begin(t, nr, uid0, FALSE)
    /\ UNCHANGED << descVars, desc_threads >>

SysConcEnabled == (\E t \in Threads : sys_enabled(t)) /\ UNCHANGED << descVars, desc_threads >>

SysConcCount == (\E t \in Threads : sys_count(t)) /\ UNCHANGED << descVars, desc_threads >>

SysConcFast == (\E t \in Threads : sys_fast(t)) /\ UNCHANGED << descVars, desc_threads >>

SysConcBlocked == (\E t \in Threads : sys_blocked(t)) /\ UNCHANGED << descVars, desc_threads >>

SysConcEventCritical ==
    (\E t \in Threads : sys_event_critical(t)) /\ UNCHANGED << descVars, desc_threads >>

SysConcLevel == (\E t \in Threads : sys_level(t)) /\ UNCHANGED << descVars, desc_threads >>

SysConcEventDestructive ==
    (\E t \in Threads : sys_event_destructive(t)) /\ UNCHANGED << descVars, desc_threads >>

SysConcSetLevel ==
    (\E level \in {1, 2} : SetSecurityLevel(level)) /\ UNCHANGED << descVars, concVars >>

SysConcNext ==
    \/ SysConcBegin
    \/ SysConcEnabled
    \/ SysConcCount
    \/ SysConcFast
    \/ SysConcBlocked
    \/ SysConcEventCritical
    \/ SysConcLevel
    \/ SysConcEventDestructive
    \/ SysConcSetLevel

SpecSysConc == InitBare /\ [][SysConcNext]_vars

\* SpecGates: sequential evaluations on each of the hosts of Hosts.
GatesEvaluate ==
    validation_count + cache_hits < MaxEvals /\ Evaluate(PolicyBuffers, {1})

GatesNext == GatesEvaluate

SpecGates == Init /\ [][GatesNext]_vars

\* SpecSys: sequential calls of tcp_analyze_syscall, level changes, unload.
SysAnalyze ==
    /\ total_checks < MaxChecks
    /\ \E nr \in SyscallNrs, uid0 \in BOOLEAN, contained \in BOOLEAN :
           tcp_analyze_syscall(nr, uid0, contained)
    /\ UNCHANGED << descVars, concVars >>

SysSetLevel ==
    (\E level \in SecurityLevels : SetSecurityLevel(level)) /\ UNCHANGED << descVars, concVars >>

SysExit == tcp_kernel_exit /\ UNCHANGED << descVars, concVars >>

SysNext == SysAnalyze \/ SysSetLevel \/ SysExit

SpecSys == InitBare /\ [][SysNext]_vars

\* SpecBoth: the two modules side by side: evaluations of the descriptor
\* module, calls of the syscall module and its unload.
BothBuffers == { D_sum, D_badsum }

BothEvaluate ==
    /\ validation_count + cache_hits < MaxEvals
    /\ \E d \in BothBuffers : tcp_validate_descriptor_kernel(d, TRUE, "fallback", 1)
    /\ UNCHANGED << sysVars, concVars >>

BothAnalyze ==
    /\ total_checks < MaxChecks
    /\ \E nr \in SyscallNrs, uid0 \in BOOLEAN : tcp_analyze_syscall(nr, uid0, FALSE)
    /\ UNCHANGED << descVars, concVars >>

BothNext == BothEvaluate \/ BothAnalyze \/ SysExit

SpecBoth == InitBare /\ [][BothNext]_vars

(***************************************************************************)
(* Vocabulary of the properties.                                           *)
(***************************************************************************)
\* The step is one evaluation of a descriptor.
EvalStep == validation_count' + cache_hits' = validation_count + cache_hits + 1

\* The step evaluates the buffer of the evaluation before it, with the same
\* fingerprint function.
RepeatStep ==
    /\ last.called
    /\ EvalStep
    /\ last'.descriptor = last.descriptor
    /\ last'.shaOk = last.shaOk

WrongLength(d) == Len(d) # 24 /\ Len(d) # 32

WrongMagic(d) ==
    \/ Len(d) = 24 /\ U32At(d, 0) # TCP_MAGIC_CLASSICAL
    \/ Len(d) = 32 /\ U32At(d, 0) # TCP_MAGIC_QUANTUM

OldQuantum(d) == Len(d) = 32 /\ U32At(d, 0) = TCP_MAGIC_QUANTUM /\ U8At(d, 4) < 3

\* The stored checksum is right for no way of computing it.
ChecksumMismatch(d) ==
    /\ Len(d) = 24
    /\ U32At(d, 0) = TCP_MAGIC_CLASSICAL
    /\ \A m \in CrcModes : tcp_hardware_crc16(d, 22, m) # U16At(d, 20)

\* The slots of the ring that hold the fingerprint h.
SlotsOf(h) == {i \in Slots : tcp_cache[i].descriptor_hash = h}

\* The last call of tcp_analyze_syscall was made with the module enabled.
SysCalled == sys_last.called /\ sys_last.enabled

(***************************************************************************)
(* C1.  Module load (init_module: Critical+Kernel+Destructive, context     *)
(* mask Admin|Kernel) called by a non-privileged, non-isolated caller.     *)
(***************************************************************************)
C1_Case(level) ==
    /\ SysCalled
    /\ sys_last.syscall_nr = NR_init_module
    /\ ~sys_last.uid0
    /\ ~sys_last.contained
    /\ sys_last.level = level

\* C1 as claimed: at security_level 0 the call returns Allow and security_events
\* grows by at least 1; at security_level 2 it returns Deny.
C1_AllowAtLevel0 ==
    /\ C1_Case(0) => sys_last.ret = 0 /\ security_events >= sys_last.events0 + 1
    /\ C1_Case(2) => sys_last.ret = -EPERM

\* C1 as amended: at security_level 0, as at security_level 2, the call returns
\* Deny (-EPERM) from the context check, adds 1 to blocked_operations and
\* leaves security_events unchanged.
C1_DenyByContext ==
    \A level \in {0, 2} :
        C1_Case(level) =>
            /\ sys_last.ret = -EPERM
            /\ blocked_operations = sys_last.blocked0 + 1
            /\ security_events = sys_last.events0

C1_Witness == C1_Case(0) /\ sys_last.ret = -EPERM

(***************************************************************************)
(* C2.  Two consecutive evaluations of the identical buffer return the     *)
(* identical value, and the second is served from the cache.               *)
(***************************************************************************)
C2_SameDecisionTwice == [][RepeatStep => (last'.ret = last.ret /\ last'.hit)]_vars

(***************************************************************************)
(* C3.  When a buffer is evaluated twice in a row, validation_count (total *)
(* evaluations) grows by exactly 1 on each call, and cache_hits by 0 on    *)
(* the first call and by exactly 1 on the second.                          *)
(***************************************************************************)
C3_StatsDeltaTwice ==
    [][(RepeatStep /\ ~last.hit) =>
           /\ validation_count = last.count0 + 1
           /\ cache_hits = last.hits0
           /\ validation_count' = validation_count + 1
           /\ cache_hits' = cache_hits + 1]_vars

(***************************************************************************)
(* C4.  Every evaluation of a buffer whose length is neither 24 nor 32     *)
(* returns -EINVAL.                                                        *)
(***************************************************************************)
C4_WrongLengthIsEinval ==
    (last.called /\ WrongLength(last.descriptor)) => last.ret = -EINVAL

(***************************************************************************)
(* C5.  An evaluation of a buffer with a wrong length, a wrong magic, a    *)
(* Quantum version below 3 or a Classical checksum mismatch never returns  *)
(* Allow (1).                                                              *)
(***************************************************************************)
C5_MalformedNeverAllowed ==
    (/\ last.called
     /\ \/ WrongLength(last.descriptor)
        \/ WrongMagic(last.descriptor)
        \/ OldQuantum(last.descriptor)
        \/ ChecksumMismatch(last.descriptor))
        => last.ret # 1

(***************************************************************************)
(* C6.  A Classical buffer with a checksum mismatch is rejected with an    *)
(* error of its own: a negative value that differs from the value          *)
(* returned for a length mismatch, a magic mismatch and an old Quantum     *)
(* version (-EINVAL).                                                      *)
(***************************************************************************)
C6_IntegrityErrorDistinct ==
    (last.called /\ ChecksumMismatch(last.descriptor)) =>
        (last.ret < 0 /\ last.ret # -EINVAL)

(***************************************************************************)
(* C7.  A 32-byte buffer with the Quantum magic and a version byte below 3 *)
(* is rejected (-EINVAL when it is computed, 0 when it is served from the  *)
(* cache) and no gate runs for it.                                         *)
(***************************************************************************)
C7_OldQuantumRejected ==
    (last.called /\ OldQuantum(last.descriptor)) =>
        (last.ret \in {-EINVAL, 0} /\ last.gates = << >>)

\* Version 2 is rejected while the cache holds an allowed descriptor.
C7_Witness ==
    /\ last.called
    /\ last.descriptor = Q_v2
    /\ last.ret = -EINVAL
    /\ \E i \in Slots : tcp_cache[i].validation_result = 1

(***************************************************************************)
(* C8.  After TCP_CACHE_SIZE + 1 stores of pairwise distinct fingerprints  *)
(* the first of them is in no slot, so that its next evaluation is a miss, *)
(* and each of the TCP_CACHE_SIZE last ones is found, in the first slot    *)
(* that holds it, with the result stored for it.                           *)
(***************************************************************************)
\* The last TCP_CACHE_SIZE + 1 stores, oldest first.
Recent == KeepLast(stored, TCP_CACHE_SIZE + 1)

C8_Case ==
    /\ Len(Recent) = TCP_CACHE_SIZE + 1
    /\ \A j, k \in 1..Len(Recent) :
           j # k => Recent[j].descriptor_hash # Recent[k].descriptor_hash

C8_OldestGone ==
    C8_Case =>
        /\ SlotsOf(Recent[1].descriptor_hash) = {}
        /\ \A k \in 2..(TCP_CACHE_SIZE + 1) :
               /\ SlotsOf(Recent[k].descriptor_hash) # {}
               /\ \A i \in SlotsOf(Recent[k].descriptor_hash) :
                      (\A j \in SlotsOf(Recent[k].descriptor_hash) : i <= j)
                          => tcp_cache[i].validation_result = Recent[k].validation_result

\* The evaluation of a buffer with the evicted fingerprint is a miss, the
\* evaluation of a buffer with a kept fingerprint is a hit.
C8_NextLookup ==
    (C8_Case /\ EvalStep) =>
        LET h == DescriptorHash(last'.descriptor, Len(last'.descriptor), last'.shaOk)
        IN  /\ h = Recent[1].descriptor_hash => ~last'.hit
            /\ \A k \in 2..(TCP_CACHE_SIZE + 1) :
                   h = Recent[k].descriptor_hash =>
                       (last'.hit /\ last'.ret = Recent[k].validation_result)

\* C8: after TCP_CACHE_SIZE + 1 stores of distinct fingerprints the oldest is
\* evicted (its next evaluation is a miss) and the others are still found.
C8_RingEvictsOldest == [](C8_OldestGone) /\ [][C8_NextLookup]_vars

\* A fingerprint was stored, evicted by TCP_CACHE_SIZE more stores of other
\* fingerprints, and stored again by its next evaluation.
C8_Witness ==
    /\ C8_Case
    /\ Len(stored) = TCP_CACHE_SIZE + 2
    /\ stored[1].descriptor_hash = stored[TCP_CACHE_SIZE + 2].descriptor_hash
    /\ ~last.hit

(***************************************************************************)
(* C9.  A call with a syscall number that is not in the table returns      *)
(* Allow (0), adds exactly 1 to fast_path_hits and leaves                  *)
(* blocked_operations and security_events unchanged, for every caller and  *)
(* every security level.                                                   *)
(***************************************************************************)
C9_UnknownIsFastPath ==
    (SysCalled /\ sys_last.syscall_nr \notin {NR_unlink, NR_execve, NR_init_module, NR_getpid}) =>
        /\ sys_last.ret = 0
        /\ fast_path_hits = sys_last.fast0 + 1
        /\ blocked_operations = sys_last.blocked0
        /\ security_events = sys_last.events0

\* An unknown number from an unprivileged, contained caller at the highest level.
C9_Witness ==
    /\ SysCalled
    /\ sys_last.syscall_nr = 0
    /\ ~sys_last.uid0
    /\ sys_last.contained
    /\ sys_last.level = 6
    /\ fast_path_hits = sys_last.fast0 + 1

(***************************************************************************)
(* C10.  A report made while validation_count is 0 shows an average time   *)
(* of 0 and a hit rate of 0 and divides by nothing, also when cache hits   *)
(* have been counted.                                                      *)
(***************************************************************************)
C10_ZeroEvaluationsReport ==
    (proc_out.shown /\ proc_out.count = 0) =>
        /\ proc_out.avg_time_ns = 0
        /\ proc_out.cache_hit_rate = 0
        /\ ~proc_out.div_fault

C10_Witness == proc_out.shown /\ proc_out.count = 0 /\ proc_out.hits > 0

(***************************************************************************)
(* C11.  The policy gate.  The flag bit it is about is either              *)
(* TCP_FLAG_DESTRUCTIVE of the syscall module (0x0002) or the bit the      *)
(* descriptor module's gate tests and calls DESTRUCTIVE (0x0001).          *)
(***************************************************************************)
DestructiveBits == {TCP_FLAG_DESTRUCTIVE, 1}

\* The security_flags field of a well-formed descriptor.
SecurityFlagsOf(d) == IF Len(d) = 24 THEN U32At(d, 8) ELSE U32At(d, 9)

\* The last evaluation was computed (not served from the cache) for a buffer
\* that passes the format and integrity checks however the checksum is computed.
PassedFormat ==
    /\ last.called
    /\ ~last.hit
    /\ \A m \in CrcModes : FormatCheck(last.descriptor, Len(last.descriptor), m) = 0

\* The last evaluation was denied by the policy gate.
DeniedByPolicy == last.ret = -EACCES /\ last.gates = << "lsm" >>

C11_PolicyFor(bit) ==
    PassedFormat =>
        (BitAnd(SecurityFlagsOf(last.descriptor), bit) # 0 <=> DeniedByPolicy)

\* C11: for one of the two readings of the Destructive bit, a computed
\* evaluation of a well-formed descriptor, Classical or Quantum, is denied by
\* the policy gate exactly when the descriptor has the bit.
C11_DestructiveDenied == \E bit \in DestructiveBits : C11_PolicyFor(bit)

(***************************************************************************)
(* C12.  A cache hit of a concurrent evaluation returns the decision that  *)
(* the stores write for its fingerprint.  (With the SHA-256 fingerprint    *)
(* and a fixed way of computing the checksum, every store for the          *)
(* fingerprint of a buffer writes the same decision: 1 when the buffer is  *)
(* allowed, 0 otherwise; a hit that returns anything else returns what no  *)
(* store wrote for that fingerprint.)                                      *)
(***************************************************************************)
StoredDecision(c) == IF c.result > 0 THEN 1 ELSE 0

C12_HitReturnsStored ==
    \A t \in Threads :
        desc_threads[t].hit => desc_threads[t].ret = StoredDecision(desc_threads[t])

(***************************************************************************)
(* C13.  Once all the concurrent calls of tcp_analyze_syscall made with    *)
(* the module enabled are over, total_checks has grown by the number of    *)
(* calls, and fast_path_hits, blocked_operations and security_events by    *)
(* the sum of what each call adds when it runs by itself (AnalyzeOutcome   *)
(* with the security level the call read).                                 *)
(***************************************************************************)
AllReturned == \A t \in Threads : ~InSyscall(t)

C13_NoLostUpdates ==
    AllReturned =>
        /\ total_checks = sys_expect.n
        /\ total_checks = sys_expect.checks
        /\ fast_path_hits = sys_expect.fast
        /\ blocked_operations = sys_expect.blocked
        /\ security_events = sys_expect.events

\* Two calls that overlapped are over, and every counter has moved.
C13_Witness ==
    /\ AllReturned
    /\ \A t \in Threads : sys_threads[t].pc = "done"
    /\ \E t \in Threads : sys_threads[t].overlap
    /\ total_checks = MaxChecks
    /\ fast_path_hits > 0
    /\ blocked_operations > 0
    /\ security_events > 0

(***************************************************************************)
(* C14.  The decision table of tcp_analyze_syscall for the four syscalls   *)
(* of the table, every caller and every security level 0..6: Allow (0)     *)
(* for a Safe descriptor; else Deny (-EPERM) when the caller's context     *)
(* (Admin if uid 0 else User, plus Container if namespace-isolated) does   *)
(* not meet the descriptor's context mask; else Deny when the descriptor   *)
(* is Critical, the level is at least 2 and the caller is not uid 0; else  *)
(* Allow, whether or not the descriptor is Destructive.                    *)
(***************************************************************************)
\* The table as the specification describes it: flags and context mask per
\* operation.
TableRow(nr) ==
    IF nr = NR_unlink THEN [flags |-> {"Destructive", "Filesystem"}, ctx |-> {"User", "Admin"}]
    ELSE IF nr = NR_execve
    THEN [flags |-> {"Execution", "Critical"}, ctx |-> {"User", "Admin", "Kernel", "Container"}]
    ELSE IF nr = NR_init_module
    THEN [flags |-> {"Critical", "Kernel", "Destructive"}, ctx |-> {"Admin", "Kernel"}]
    ELSE [flags |-> {"Safe"}, ctx |-> {"User", "Admin", "Kernel", "Container"}]

CallerContext(uid0, contained) ==
    {IF uid0 THEN "Admin" ELSE "User"} \cup (IF contained THEN {"Container"} ELSE {})

TableDecision(nr, uid0, contained, level) ==
    LET row == TableRow(nr)
    IN  IF "Safe" \in row.flags THEN 0
        ELSE IF CallerContext(uid0, contained) \cap row.ctx = {} THEN -EPERM
        ELSE IF "Critical" \in row.flags /\ level >= 2 /\ ~uid0 THEN -EPERM
        ELSE 0

C14_DecisionTable ==
    (SysCalled /\ sys_last.syscall_nr \in {NR_unlink, NR_execve, NR_init_module, NR_getpid}) =>
        sys_last.ret = TableDecision(sys_last.syscall_nr, sys_last.uid0, sys_last.contained,
                                     sys_last.level)

\* A Destructive call (unlink) of an unprivileged, isolated caller is allowed
\* at the highest level.
C14_Witness ==
    /\ SysCalled
    /\ sys_last.syscall_nr = NR_unlink
    /\ ~sys_last.uid0
    /\ sys_last.contained
    /\ sys_last.level = 6
    /\ sys_last.ret = 0

(***************************************************************************)
(* C15.  On a host without SGX and without a TPM, an evaluation that is    *)
(* computed, passes the format and integrity checks and passes the policy  *)
(* gate goes through the enclave and the attestation gate and returns      *)
(* Allow (1); and no evaluation, on any host, changes hardware_features.   *)
(***************************************************************************)
NoEnclaveNoTpm == BitAnd(hardware_features, BitOr(TCP_HW_SGX, TCP_HW_TPM)) = 0

\* The last evaluation was computed and got past the policy gate.
PassedPolicy == last.called /\ ~last.hit /\ Len(last.gates) >= 2

C15_AutoPass ==
    (NoEnclaveNoTpm /\ PassedPolicy) =>
        (last.ret = 1 /\ last.gates = << "lsm", "ebpf", "sgx", "tpm" >>)

C15_InventoryKept == hardware_features' = hardware_features

\* C15: unavailable enclave and attestation gates pass, and the capability
\* inventory is not modified by an evaluation.
C15_UnavailableGatesPass == [](C15_AutoPass) /\ [][C15_InventoryKept]_vars

\* A Quantum descriptor was allowed on the host without SGX and TPM.
C15_Witness ==
    /\ NoEnclaveNoTpm
    /\ PassedPolicy
    /\ last.descriptor = Q_ok
    /\ last.ret = 1

(***************************************************************************)
(* C16.  The value returned by tcp_analyze_syscall is a function of the    *)
(* syscall number, the caller's privilege and isolation, the security      *)
(* level and the enabled flag alone: whatever calls came before and        *)
(* whatever the counters hold, it is PureDecision of these five.           *)
(***************************************************************************)
PureDecision(nr, uid0, contained, level, en) ==
    IF ~en THEN 0
    ELSE IF nr \notin {NR_unlink, NR_execve, NR_init_module, NR_getpid} THEN 0
    ELSE TableDecision(nr, uid0, contained, level)

C16_DecisionIsStateless ==
    sys_last.called =>
        sys_last.ret = PureDecision(sys_last.syscall_nr, sys_last.uid0, sys_last.contained,
                                    sys_last.level, sys_last.enabled)

\* A call is allowed after earlier calls were blocked and logged.
C16_Witness ==
    /\ SysCalled
    /\ sys_last.syscall_nr = NR_unlink
    /\ sys_last.ret = 0
    /\ sys_last.blocked0 >= 2
    /\ fast_path_hits = 0

(***************************************************************************)
(* C17.  An evaluation of a buffer that is malformed (wrong length, wrong  *)
(* magic, Quantum version below 3) or fails the integrity check does not   *)
(* take its result from the cache and leaves the ring contents and the     *)
(* ring index unchanged: the lookup comes after the format and integrity   *)
(* checks and the store after the gate pipeline.                           *)
(***************************************************************************)
Rejectable(d) == WrongLength(d) \/ WrongMagic(d) \/ OldQuantum(d) \/ ChecksumMismatch(d)

C17_RejectedStep ==
    (EvalStep /\ Rejectable(last'.descriptor)) =>
        /\ ~last'.hit
        /\ tcp_cache' = tcp_cache
        /\ tcp_cache_head' = tcp_cache_head

C17_RejectedLeavesCache == [][C17_RejectedStep]_vars

(***************************************************************************)
(* C18.  When the first two evaluations are cache misses of two distinct   *)
(* fingerprints made by the two threads, in any interleaving, then once    *)
(* both have returned each fingerprint is in a slot and tcp_cache_head     *)
(* has advanced by 2 modulo TCP_CACHE_SIZE; and tcp_cache_head is always   *)
(* a slot index.                                                           *)
(***************************************************************************)
C18_Case ==
    /\ \A t \in Threads : desc_threads[t].pc = "done" /\ ~desc_threads[t].hit
    /\ \A t, u \in Threads :
           t # u => desc_threads[t].descriptor_hash # desc_threads[u].descriptor_hash
    /\ validation_count = Cardinality(Threads)
    /\ cache_hits = 0

C18_EachStoreTakesASlot ==
    /\ tcp_cache_head \in Slots
    /\ C18_Case =>
           /\ \A t \in Threads : SlotsOf(desc_threads[t].descriptor_hash) # {}
           /\ tcp_cache_head = Cardinality(Threads) % TCP_CACHE_SIZE

(***************************************************************************)
(* C19.  In every step, of the descriptor module and of the syscall        *)
(* module, up to and including the unload, no statistics counter           *)
(* decreases, and false_positives stays 0.                                 *)
(***************************************************************************)
C19_Step ==
    /\ validation_count' >= validation_count
    /\ cache_hits' >= cache_hits
    /\ security_violations' >= security_violations
    /\ total_time_ns' >= total_time_ns
    /\ total_checks' >= total_checks
    /\ fast_path_hits' >= fast_path_hits
    /\ blocked_operations' >= blocked_operations
    /\ security_events' >= security_events
    /\ false_positives = 0
    /\ false_positives' = 0

C19_CountersOnlyGrow == [][C19_Step]_vars

\* Every counter but false_positives has moved and the module was unloaded.
C19_Witness ==
    /\ ~enabled
    /\ validation_count > 0
    /\ cache_hits > 0
    /\ security_violations > 0
    /\ total_time_ns > 0
    /\ total_checks = MaxChecks
    /\ fast_path_hits > 0
    /\ blocked_operations > 0
    /\ security_events > 0
    /\ false_positives = 0

(***************************************************************************)
(* C20.  In every reachable state of the descriptor module cache_hits is   *)
(* at most validation_count, and a report shows a cache hit rate of at     *)
(* most 100 percent.                                                       *)
(***************************************************************************)
C20_HitsAtMostEvaluations ==
    /\ cache_hits <= validation_count
    /\ proc_out.shown => proc_out.cache_hit_rate <= 100

(***************************************************************************)
(* C21.  An evaluation is served from the cache only when a store wrote    *)
(* its fingerprint before: on a freshly allocated cache, and for a slot no *)
(* store has written, the lookup misses, also for the all-zero             *)
(* fingerprint.                                                            *)
(***************************************************************************)
\* The fingerprints written by the stores so far.
StoredHashes == {stored[k].descriptor_hash : k \in 1..Len(stored)}

C21_HitOnlyIfStored ==
    (last.called /\ last.hit) =>
        DescriptorHash(last.descriptor, Len(last.descriptor), last.shaOk) \in StoredHashes

(***************************************************************************)
(* C22.  A call of tcp_analyze_syscall that returns Deny (-EPERM), from    *)
(* the context check or from the Critical escalation, adds exactly 1 to    *)
(* blocked_operations; a call that returns Allow (0) leaves it unchanged;  *)
(* and fast_path_hits + blocked_operations <= total_checks in every        *)
(* reachable state.                                                        *)
(***************************************************************************)
C22_BlockedCountsDenials ==
    /\ fast_path_hits + blocked_operations <= total_checks
    /\ sys_last.called =>
           /\ sys_last.ret \in {0, -EPERM}
           /\ sys_last.ret = -EPERM => blocked_operations = sys_last.blocked0 + 1
           /\ sys_last.ret = 0 => blocked_operations = sys_last.blocked0

\* A denial by the Critical escalation (execve, unprivileged, level 2) after a
\* denial by the context check.
C22_Witness ==
    /\ SysCalled
    /\ sys_last.syscall_nr = NR_execve
    /\ ~sys_last.uid0
    /\ sys_last.level = 2
    /\ sys_last.ret = -EPERM
    /\ sys_last.blocked0 = 1
    /\ blocked_operations = 2
    /\ security_events = 1

(***************************************************************************)
(* C23.  A call of tcp_analyze_syscall made while tcp_state.enabled is     *)
(* false returns Allow (0) for every syscall number and caller and leaves  *)
(* every counter, total_checks included, unchanged.                        *)
(***************************************************************************)
C23_DisabledIsInert ==
    (sys_last.called /\ ~sys_last.enabled) =>
        /\ sys_last.ret = 0
        /\ total_checks = sys_last.checks0
        /\ fast_path_hits = sys_last.fast0
        /\ blocked_operations = sys_last.blocked0
        /\ security_events = sys_last.events0
        /\ false_positives = 0

\* After the unload, the module-load call of an unprivileged caller at level 2,
\* which is denied when the module is enabled.
C23_Witness ==
    /\ sys_last.called
    /\ ~sys_last.enabled
    /\ sys_last.syscall_nr = NR_init_module
    /\ ~sys_last.uid0
    /\ sys_last.level = 2
    /\ sys_last.ret = 0
    /\ total_checks > 0

(***************************************************************************)
(* C24.  When the first two evaluations are made by the two threads for    *)
(* one and the same buffer, in any interleaving, then once both have       *)
(* returned exactly one slot of the ring holds its fingerprint.            *)
(***************************************************************************)
C24_Case ==
    /\ \A t \in Threads : desc_threads[t].pc = "done"
    /\ \A t, u \in Threads : desc_threads[t].descriptor = desc_threads[u].descriptor
    /\ validation_count + cache_hits = Cardinality(Threads)

C24_OneSlotPerFingerprint ==
    C24_Case =>
        \A t \in Threads : Cardinality(SlotsOf(desc_threads[t].descriptor_hash)) = 1

====
